---- MODULE Spec2Model ----
(***************************************************************************)
(* Reminder scheduling and persistence of the Music League bot:            *)
(*   storage.js    the JSON-file reminder store (load / modify / save)     *)
(*   scheduler.js  setTimeout timers, activeTimers, add / cancel / restore *)
(*   bot.js        the 'ready' handler and the slash-command handlers      *)
(*                                                                         *)
(* Time is an integer clock counting milliseconds (Date.now()).  A timer   *)
(* armed at clock t with delay d is due at t + d.  Node measures the delay *)
(* on the event loop's clock, which runs up to one millisecond behind      *)
(* Date.now(): a timer may expire at any clock value >= due - 1, and as    *)
(* late as one likes.  The setTimeout ceiling and the minute are shrunk to *)
(* a few milliseconds so that chained timers occur within the bounds.      *)
(* JavaScript runs each handler to its next await without interleaving, so *)
(* each action is one such run.                                            *)
(*                                                                         *)
(* randomUUID().slice(0, 8) may return an id it returned before.  A read   *)
(* of reminders.json that throws is taken for the empty list by            *)
(* loadReminders, in a process that goes on.  A write of reminders.json    *)
(* truncates the file first: a write that fails half way, or a process     *)
(* that dies inside it, leaves a file that every reader takes for the      *)
(* empty list.  bot.js handles no rejection of its listeners               *)
(* and no exception of its timer callbacks: an exception of writeFileSync  *)
(* ends the process, as a kill does, at any write of a handler.  A process *)
(* restart loses timers, running callbacks and activeTimers.               *)
(***************************************************************************)
EXTENDS Integers, Sequences, FiniteSets, TLC

\* ---- bounds of the model ------------------------------------------------
MaxTime == 3
MaxCrashes == 1
\* The longest delay of a timer chain followed from arming to delivery.
MaxChain == 5

\* scheduler.js line 58: the setTimeout ceiling, shrunk (the source value is
\* 2147483647 ms).
MAX_DELAY == 2

\* scheduler.js line 66: the most a timer runs ahead of Date.now(), in ms.
\* setTimeout counts from the event loop's clock, a whole number of
\* milliseconds rounded down, while scheduleTimer computes the delay from
\* Date.now().
LoopClockLag == 1

\* The /remind requests of the model that are accepted, in their order: the
\* number n of a reminder stands for the fields of its record that the
\* scheduler never reads (channelId, type, deadline, label, emoji).
Reminders == {1, 2}
\* The reminder ids of the model (the 8-character strings of addReminder).
Ids == {1, 2}
Guilds == {"guildA", "guildB"}
Times == 0..MaxTime

\* bot.js line 281: the milliseconds of one minute of remind_before, shrunk
\* (the source value is 60000).
OneMinute == 1
\* bot.js line 281: the largest time value of a Date, shrunk (the source
\* value is 8640000000000000 ms either side of the epoch).
MaxDate == 8
\* Values of the integer option remind_before (bot.js lines 47-50 declare no
\* minimum and no maximum): a few minutes either side of the deadline, and
\* two that take remindAt out of the range of Date.
RemindBefores == (-1..1) \cup {-(2 * MaxDate), 2 * MaxDate}

NoHandle == 0

\* new Date(x).getTime() of a remindAt that is missing or does not parse: a
\* value outside the clock's range stands for NaN.  JavaScript's <=, > and -
\* on times: a comparison with NaN is false, a difference with NaN is NaN.
NaN == -1000
JsLe(a, b) == a # NaN /\ b # NaN /\ a <= b
JsGt(a, b) == a # NaN /\ b # NaN /\ a > b
JsMinus(a, b) == IF a = NaN \/ b = NaN THEN NaN ELSE a - b

VARIABLES
  now,           \* the wall clock (Date.now())
  phase,         \* "registering": 'ready' emitted, awaiting registerCommands()
                 \* "running":     restoreReminders has run
  crashes,       \* number of process restarts so far
  store,         \* reminders.json: a sequence of reminder records
  timers,        \* pending setTimeout timers of the process
  inflight,      \* terminal callbacks suspended at an await
  activeTimers,  \* scheduler.js activeTimers: id -> handle (NoHandle: no key)
  restoreLog,    \* the counts restoreReminders logged in this process
  hist           \* history per reminder (what was registered, sent, cancelled)

vars == <<now, phase, crashes, store, timers, inflight, activeTimers,
          restoreLog, hist>>

\* ---- storage.js ----------------------------------------------------------

\* The outcomes of readFileSync on reminders.json: TRUE, the file is read;
\* FALSE, the read throws (EACCES, EMFILE, EIO).
ReadOutcomes == BOOLEAN

\* loadReminders() when readFileSync has the outcome ok.  A read that throws
\* gives [] through the catch of line 48, and so does a file that was cut
\* short and does not parse: such a file is the empty sequence here.
loadReminders(st, ok) == IF ok THEN st ELSE <<>>

\* The file left by a writeFileSync that did not finish.
CutFile == <<>>

\* saveReminders writing dates at half the clock's precision.
saveRemindersRounded(st) ==
  [i \in 1..Len(st) |-> [st[i] EXCEPT !.remindAt = (@ \div 2) * 2]]

saveReminders(st) == st

storage_addReminder(st, r, ok) ==
  saveReminders(Append(loadReminders(st, ok), r))

storage_removeReminder(st, id, ok) ==
  saveReminders(SelectSeq(loadReminders(st, ok), LAMBDA r : r.id # id))

\* getRemindersForGuild without its guild filter.
getRemindersAnyGuild(st, guildId, ok) == loadReminders(st, ok)

getRemindersForGuild(st, guildId, ok) ==
  SelectSeq(loadReminders(st, ok), LAMBDA r : r.guildId = guildId)

getAllReminders(st, ok) == loadReminders(st, ok)

\* ---- scheduler.js --------------------------------------------------------
\* The scheduler's state as one record m:
\*   m.store, m.timers, m.inflight, m.active (activeTimers)
\* An operator that reads reminders.json takes the outcome of each of its
\* reads, in the order of the reads.

Mem == [store |-> store, timers |-> timers, inflight |-> inflight,
        active |-> activeTimers]

StoreIds(st) == {st[i].id : i \in 1..Len(st)}

\* setTimeout returns a new Timeout object.  A timer is named by the id of
\* the reminder its closure holds and a number h that no pending timer, no
\* running callback and no activeTimers entry of that id carries.
UsedHandles(m, id) ==
  {tm.h : tm \in {x \in m.timers : x.rem.id = id}}
    \cup {cb.h : cb \in {x \in m.inflight : x.rem.id = id}}
    \cup {m.active[id]}

NewHandle(m, id) ==
  CHOOSE h \in 1..(Cardinality(UsedHandles(m, id)) + 1) :
    /\ h \notin UsedHandles(m, id)
    /\ \A k \in 1..(h - 1) : k \in UsedHandles(m, id)

\* Node gives a timer whose delay is NaN a delay of 1 ms.
setTimeout(m, r, kind, t, delay) ==
  [h |-> NewHandle(m, r.id), rem |-> r, kind |-> kind,
   due |-> t + (IF delay = NaN THEN 1 ELSE delay)]

\* The timer may run its callback at clock value t.
Expired(tm, t) == tm.due - LoopClockLag <= t

\* scheduleTimer with `delay >= MAX_DELAY` as the test of the hop branch.
scheduleTimerHopAtMax(m, r, t, ok) ==
  LET fireAt == r.remindAt
      delay == fireAt - t
  IN  IF delay <= 0
      THEN [m EXCEPT !.store = storage_removeReminder(@, r.id, ok),
                     !.active[r.id] = NoHandle]
      ELSE IF delay >= MAX_DELAY
      THEN LET tm == setTimeout(m, r, "hop", t, MAX_DELAY)
           IN  [m EXCEPT !.timers = @ \cup {tm}, !.active[r.id] = tm.h]
      ELSE LET tm == setTimeout(m, r, "fire", t, delay)
           IN  [m EXCEPT !.timers = @ \cup {tm}, !.active[r.id] = tm.h]

\* scheduleTimer delivering a reminder that is already due instead of
\* dropping it: the `delay <= 0` branch arms a terminal timer of delay 0.
scheduleTimerDeliversDue(m, r, t, ok) ==
  LET fireAt == r.remindAt
      delay == JsMinus(fireAt, t)
  IN  IF JsLe(delay, 0)
      THEN LET tm == setTimeout(m, r, "fire", t, 0)
           IN  [m EXCEPT !.timers = @ \cup {tm}, !.active[r.id] = tm.h]
      ELSE IF JsGt(delay, MAX_DELAY)
      THEN LET tm == setTimeout(m, r, "hop", t, MAX_DELAY)
           IN  [m EXCEPT !.timers = @ \cup {tm}, !.active[r.id] = tm.h]
      ELSE LET tm == setTimeout(m, r, "fire", t, delay)
           IN  [m EXCEPT !.timers = @ \cup {tm}, !.active[r.id] = tm.h]

\* scheduleTimer(reminder, client), run at clock value t; ok is the outcome
\* of the read of storage.removeReminder at line 52.
scheduleTimer(m, r, t, ok) ==
  LET fireAt == r.remindAt
      delay == JsMinus(fireAt, t)
  IN  IF JsLe(delay, 0)
      THEN [m EXCEPT !.store = storage_removeReminder(@, r.id, ok),
                     !.active[r.id] = NoHandle]
      ELSE IF JsGt(delay, MAX_DELAY)
      THEN LET tm == setTimeout(m, r, "hop", t, MAX_DELAY)
           IN  [m EXCEPT !.timers = @ \cup {tm}, !.active[r.id] = tm.h]
      ELSE LET tm == setTimeout(m, r, "fire", t, delay)
           IN  [m EXCEPT !.timers = @ \cup {tm}, !.active[r.id] = tm.h]

\* The finally block of the terminal callback (lines 77-81).
finalize(m, id, ok) ==
  [m EXCEPT !.store = storage_removeReminder(@, id, ok),
            !.active[id] = NoHandle]

\* addReminder(opts, client) with the generated id, run at clock value t;
\* ok1 is the outcome of the read of storage.addReminder (line 93), ok2 that
\* of the read inside scheduleTimer (line 94).
addReminder(m, r, t, ok1, ok2) ==
  scheduleTimer([m EXCEPT !.store = storage_addReminder(@, r, ok1)], r, t, ok2)

\* addReminder arming the timer before the record is written, when the write
\* throws.
addReminderThrowsAfterArming(m, r, t, cut) ==
  scheduleTimer([m EXCEPT !.store = IF cut THEN CutFile ELSE @], r, t, TRUE)

\* addReminder(opts, client) up to the throw of storage.addReminder at line
\* 93 (writeFileSync fails): lines 94-95 do not run and the exception leaves
\* addReminder, so that no id is returned.  The write fails before the file
\* is opened (cut = FALSE: the file is as it was) or after it was truncated
\* (cut = TRUE).
addReminderThrows(m, r, t, cut) ==
  [m EXCEPT !.store = IF cut THEN CutFile ELSE @]

clearTimeout(tms, id, h) == {tm \in tms : ~(tm.rem.id = id /\ tm.h = h)}

\* cancelReminder(guildId, id): the new state and the returned boolean; ok1
\* is the outcome of the read of getRemindersForGuild (line 102), ok2 that of
\* the read of storage.removeReminder (line 110).
cancelReminder(m, guildId, id, ok1, ok2) ==
  LET reminders == getRemindersForGuild(m.store, guildId, ok1)
      found == \E i \in 1..Len(reminders) : reminders[i].id = id
  IN  IF ~found
      THEN [m |-> m, val |-> FALSE]
      ELSE LET m1 == IF m.active[id] # NoHandle
                     THEN [m EXCEPT !.timers = clearTimeout(@, id, m.active[id]),
                                    !.active[id] = NoHandle]
                     ELSE m
           IN  [m |-> [m1 EXCEPT !.store = storage_removeReminder(@, id, ok2)],
                val |-> TRUE]

\* cancelReminder(guildId, id) on a stored reminder of the guild, found by a
\* read that succeeded, up to the throw of storage.removeReminder at line 110
\* (writeFileSync fails): lines 106-109 have run, nothing is returned.
cancelReminderThrows(m, guildId, id, cut) ==
  LET m1 == IF m.active[id] # NoHandle
            THEN [m EXCEPT !.timers = clearTimeout(@, id, m.active[id]),
                           !.active[id] = NoHandle]
            ELSE m
  IN  [m1 EXCEPT !.store = IF cut THEN CutFile ELSE @]

\* getReminders without its `remindAt > now` filter.
getRemindersUnfiltered(st, guildId, t, ok) ==
  getRemindersForGuild(st, guildId, ok)

\* getReminders(guildId) at clock value t.
getReminders(st, guildId, t, ok) ==
  SelectSeq(getRemindersForGuild(st, guildId, ok),
            LAMBDA r : JsGt(r.remindAt, t))

\* The outcomes of the reads of one restoreReminders pass: oks[1] for
\* getAllReminders (line 126), oks[i + 1] for the read of the i-th turn of
\* the loop (storage.removeReminder at line 134 or inside scheduleTimer).
ReadsOfPass == [1..(Cardinality(Reminders) + 1) -> ReadOutcomes]

\* restoreReminders(client): the loop over `all` from position i on.  t0 is
\* the `now` read at line 127; the clock reads t0 until record k is reached
\* and t0 + 1 from then on (Date.now() in scheduleTimer is a later read).
\* acc is [m, restored, expired].
RECURSIVE restoreLoop(_, _, _, _, _, _)
restoreLoop(acc, all, i, t0, k, oks) ==
  IF i > Len(all) THEN acc
  ELSE LET reminder == all[i]
           t == IF i >= k THEN t0 + 1 ELSE t0
           next == IF JsLe(reminder.remindAt, t0)
             THEN [m |-> [acc.m EXCEPT !.store =
                            storage_removeReminder(@, reminder.id, oks[i + 1])],
                   restored |-> acc.restored,
                   expired |-> acc.expired + 1]
             ELSE [m |-> scheduleTimer(acc.m, reminder, t, oks[i + 1]),
                   restored |-> acc.restored + 1,
                   expired |-> acc.expired]
       IN  restoreLoop(next, all, i + 1, t0, k, oks)

restoreReminders(m, t0, k, oks) ==
  restoreLoop([m |-> m, restored |-> 0, expired |-> 0],
              getAllReminders(m.store, oks[1]), 1, t0, k, oks)

\* restoreReminders(client) up to the end of the j-th turn of its loop.
restoreRemindersUpTo(m, t0, k, j, oks) ==
  restoreLoop([m |-> m, restored |-> 0, expired |-> 0],
              SubSeq(getAllReminders(m.store, oks[1]), 1, j), 1, t0, k, oks)

\* ---- history ---------------------------------------------------------------

\* What happened to each reminder so far:
\*   id     the id addReminder gave it (0: not registered)
\*   reg    "no": not registered; "armed": addReminder armed a timer for it;
\*          "due": scheduleTimer found it already due inside addReminder;
\*          "written": the process died inside addReminder, after the
\*          record was written and before scheduleTimer ran
\*   hops   intermediate timers of it that expired
\*   fired  terminal callbacks of it that started
\*   sends  channel.send calls started for it
\*   cancels           cancelReminder calls that returned true on a record
\*                     of it
\*   cancelledUnfired  one of them returned true while no terminal callback
\*                     of it had started
NoHist == [id |-> 0, reg |-> "no", hops |-> 0, fired |-> 0, sends |-> 0,
           cancels |-> 0, cancelledUnfired |-> FALSE]

NoLog == [restored |-> 0, expired |-> 0]

Issued == {n \in Reminders : hist[n].reg # "no"}

\* The number of the next reminder.
NextReminder(n) == n \notin Issued /\ \A j \in Reminders : j < n => j \in Issued

\* randomUUID().slice(0, 8): any id, also one that was returned before.  Ids
\* are opaque, so the n-th reminder is given one of the first n ids.
AnyId(n, id) == id \in Ids /\ id <= n

SetMem(m) ==
  /\ store' = m.store
  /\ timers' = m.timers
  /\ inflight' = m.inflight
  /\ activeTimers' = m.active

\* ---- Init -------------------------------------------------------------------
\* A fresh process on an empty reminders.json: the client is ready and the
\* 'ready' handler is awaiting registerCommands().
Init ==
  /\ now = 0
  /\ phase = "registering"
  /\ crashes = 0
  /\ store = <<>>
  /\ timers = {}
  /\ inflight = {}
  /\ activeTimers = [i \in Ids |-> NoHandle]
  /\ restoreLog = NoLog
  /\ hist = [n \in Reminders |-> NoHist]

\* ---- actions ----------------------------------------------------------------

\* The clock advances.
Tick ==
  /\ now < MaxTime
  /\ now' = now + 1
  /\ UNCHANGED <<phase, crashes, store, timers, inflight, activeTimers,
                 restoreLog, hist>>

\* bot.js 'ready' handler, after `await registerCommands()` (lines 352-353).
\* The clock may advance by one during the pass, before record k of the list
\* that getAllReminders returned; oks are the outcomes of the reads.
Restore(k, oks) ==
  /\ phase = "registering"
  /\ LET all == getAllReminders(store, oks[1])
         res == restoreReminders(Mem, now, k, oks)
     IN  /\ k \in 1..(Len(all) + 1)
         /\ (k <= Len(all)) => now < MaxTime
         /\ SetMem(res.m)
         /\ restoreLog' = [restored |-> res.restored, expired |-> res.expired]
         /\ now' = IF k <= Len(all) THEN now + 1 ELSE now
  /\ phase' = "running"
  /\ UNCHANGED <<crashes, hist>>

\* bot.js /remind handler (lines 268-315) for a deadline and remind_before
\* giving remindAt = at.  The handler reads the clock at line 282 and
\* scheduleTimer reads it again at line 46, adv later.  Guild names are
\* opaque: the guild of the first reminder ever registered is called guildA.
\* ok1 and ok2 are the outcomes of the reads of addReminder.
Remind(guildId, at, n, id, adv, ok1, ok2) ==
  /\ at > now
  /\ NextReminder(n)
  /\ AnyId(n, id)
  /\ (Issued = {}) => guildId = "guildA"
  /\ now + adv <= MaxTime
  /\ LET r == [id |-> id, guildId |-> guildId, remindAt |-> at, n |-> n]
     IN  SetMem(addReminder(Mem, r, now + adv, ok1, ok2))
  /\ hist' = [hist EXCEPT ![n].id = id,
                          ![n].reg = IF at > now + adv THEN "armed" ELSE "due"]
  /\ now' = now + adv
  /\ UNCHANGED <<phase, crashes, restoreLog>>

\* The process ends (a kill, or an exception that nothing handles) and is
\* started again on the reminders.json st it has left: timers, callbacks and
\* activeTimers are lost and the new client becomes ready.
ProcessDies(st) ==
  /\ crashes < MaxCrashes
  /\ crashes' = crashes + 1
  /\ phase' = "registering"
  /\ store' = st
  /\ timers' = {}
  /\ inflight' = {}
  /\ activeTimers' = [i \in Ids |-> NoHandle]
  /\ restoreLog' = NoLog

\* bot.js /remind handler when the write of reminders.json fails: the
\* exception of scheduler.addReminder rejects the async listener before its
\* reply, nothing handles the rejection and Node ends the process.  Nothing
\* of the request is kept once the write throws, so that one request (the
\* next reminder, in guildA, due in 1 ms) stands for all.
RemindWriteFails(cut) ==
  /\ now < MaxTime
  /\ \E n \in Reminders :
       /\ NextReminder(n)
       /\ LET r == [id |-> n, guildId |-> "guildA", remindAt |-> now + 1, n |-> n]
          IN  ProcessDies(addReminderThrows(Mem, r, now, cut).store)
  /\ UNCHANGED <<now, hist>>

\* bot.js /remind handler when the process dies inside addReminder between
\* its two writes: storage.addReminder has written the record (line 93) and
\* scheduleTimer has not yet removed it (line 52) or armed its timer.  No id
\* is returned and no reply is sent.  ok is the outcome of the read of
\* storage.addReminder.
RemindDies(guildId, at, n, id, ok) ==
  /\ at > now
  /\ NextReminder(n)
  /\ AnyId(n, id)
  /\ (Issued = {}) => guildId = "guildA"
  /\ LET r == [id |-> id, guildId |-> guildId, remindAt |-> at, n |-> n]
     IN  ProcessDies(storage_addReminder(store, r, ok))
  /\ hist' = [hist EXCEPT ![n].id = id, ![n].reg = "written"]
  /\ UNCHANGED now

\* The reminders that have a record with this id in this guild.
Found(st, guildId, id) ==
  {st[i].n : i \in {j \in 1..Len(st) : st[j].id = id /\ st[j].guildId = guildId}}

\* The outcomes of the two reads of a cancelReminder(guildId, id) call that
\* give different runs: the second read takes place only when the first has
\* found a record, and a first read that fails on a file with no record of
\* the id in the guild returns what a read that succeeds returns.
CancelReads(guildId, id) ==
  IF Found(store, guildId, id) # {}
  THEN {oks \in ReadOutcomes \X ReadOutcomes : oks[1] \/ oks[2]}
  ELSE {<<TRUE, TRUE>>}

\* bot.js /cancelreminder handler (lines 337-345); ok1 and ok2 are the
\* outcomes of the reads of cancelReminder.
CancelReminder(guildId, id, ok1, ok2) ==
  /\ LET res == cancelReminder(Mem, guildId, id, ok1, ok2)
     IN  /\ SetMem(res.m)
         /\ hist' = IF res.val
              THEN [n \in Reminders |->
                      IF n \in Found(store, guildId, id)
                      THEN [hist[n] EXCEPT
                              !.cancels = @ + 1,
                              !.cancelledUnfired = @ \/ hist[n].fired = 0]
                      ELSE hist[n]]
              ELSE hist
  /\ UNCHANGED <<now, phase, crashes, restoreLog>>

\* bot.js /cancelreminder handler when the write of reminders.json fails:
\* the exception of scheduler.cancelReminder rejects the async listener
\* before its reply, nothing handles the rejection and Node ends the process.
CancelWriteFails(guildId, id, cut) ==
  /\ Found(store, guildId, id) # {}
  /\ ProcessDies(cancelReminderThrows(Mem, guildId, id, cut).store)
  /\ UNCHANGED <<now, hist>>

\* The outcomes of the read of a storage.removeReminder(id) call that give
\* different runs: a read that fails on a file with no record of another id
\* leaves the file that a read that succeeds leaves.
RemovalReads(id) ==
  IF \E i \in 1..Len(store) : store[i].id # id THEN ReadOutcomes ELSE {TRUE}

\* An intermediate timer expires: scheduleTimer runs again (line 61); ok is
\* the outcome of its read.
TimerHop(tm, ok) ==
  /\ tm \in timers
  /\ tm.kind = "hop"
  /\ Expired(tm, now)
  /\ SetMem(scheduleTimer([Mem EXCEPT !.timers = @ \ {tm}], tm.rem, now, ok))
  /\ hist' = [hist EXCEPT ![tm.rem.n].hops = @ + 1]
  /\ UNCHANGED <<now, phase, crashes, restoreLog>>

\* A terminal timer expires: its callback starts and awaits channels.fetch.
TimerFire(tm) ==
  /\ tm \in timers
  /\ tm.kind = "fire"
  /\ Expired(tm, now)
  /\ timers' = timers \ {tm}
  /\ inflight' = inflight \cup {[h |-> tm.h, rem |-> tm.rem, pc |-> "fetch"]}
  /\ hist' = [hist EXCEPT ![tm.rem.n].fired = @ + 1]
  /\ UNCHANGED <<now, phase, crashes, store, activeTimers, restoreLog>>

\* channels.fetch resolved with a channel: channel.send is started (line 73).
FetchOk(cb) ==
  /\ cb \in inflight
  /\ cb.pc = "fetch"
  /\ inflight' = (inflight \ {cb}) \cup {[cb EXCEPT !.pc = "send"]}
  /\ hist' = [hist EXCEPT ![cb.rem.n].sends = @ + 1]
  /\ UNCHANGED <<now, phase, crashes, store, timers, activeTimers, restoreLog>>

\* channels.fetch threw or gave no channel: catch, then finally; ok is the
\* outcome of the read of storage.removeReminder (line 79).
FetchFail(cb, ok) ==
  /\ cb \in inflight
  /\ cb.pc = "fetch"
  /\ SetMem(finalize([Mem EXCEPT !.inflight = @ \ {cb}], cb.rem.id, ok))
  /\ UNCHANGED <<now, phase, crashes, restoreLog, hist>>

\* channel.send resolved or threw: finally; ok is the outcome of the read of
\* storage.removeReminder (line 79).
SendDone(cb, ok) ==
  /\ cb \in inflight
  /\ cb.pc = "send"
  /\ SetMem(finalize([Mem EXCEPT !.inflight = @ \ {cb}], cb.rem.id, ok))
  /\ UNCHANGED <<now, phase, crashes, restoreLog, hist>>

\* The process dies and is started again.  reminders.json is kept as it is
\* (cut = FALSE): a kill between two handlers, or an exception that leaves a
\* handler before its first write (toISOString of an invalid remindAt at
\* bot.js line 297, see RemindCmd).  Or it is left cut short when the process
\* dies inside a writeFileSync of saveReminders (cut = TRUE): a kill, or a
\* write that fails in a timer callback or in restoreReminders.
Restart(cut) ==
  /\ ProcessDies(IF cut THEN CutFile ELSE store)
  /\ UNCHANGED <<now, hist>>

\* The process dies inside restoreReminders, after the j-th turn of its loop
\* and before the last: the records removed so far are gone from the file.
\* The clock may have advanced by one before record k; oks are the outcomes
\* of the reads.
RestoreDies(k, j, oks) ==
  /\ phase = "registering"
  /\ j \in 1..(Len(getAllReminders(store, oks[1])) - 1)
  /\ k \in 1..(j + 1)
  /\ (k <= j) => now < MaxTime
  /\ ProcessDies(restoreRemindersUpTo(Mem, now, k, j, oks).m.store)
  /\ now' = IF k <= j THEN now + 1 ELSE now
  /\ UNCHANGED hist

Next ==
  \/ Tick
  \/ \E k \in 1..(Cardinality(Reminders) + 1), oks \in ReadsOfPass :
       Restore(k, oks)
  \/ \E n \in {x \in Reminders : NextReminder(x)} :
       \E g \in Guilds, at \in Times, id \in Ids, adv \in 0..1,
          ok1, ok2 \in ReadOutcomes :
         Remind(g, at, n, id, adv, ok1, ok2)
  \/ \E cut \in BOOLEAN : RemindWriteFails(cut)
  \/ \E n \in {x \in Reminders : NextReminder(x)} :
       \E g \in Guilds, at \in Times, id \in Ids, ok \in ReadOutcomes :
         RemindDies(g, at, n, id, ok)
  \/ \E g \in Guilds, id \in Ids :
       \E oks \in CancelReads(g, id) : CancelReminder(g, id, oks[1], oks[2])
  \/ \E g \in Guilds, id \in Ids, cut \in BOOLEAN : CancelWriteFails(g, id, cut)
  \/ \E tm \in timers : \E ok \in RemovalReads(tm.rem.id) : TimerHop(tm, ok)
  \/ \E tm \in timers : TimerFire(tm)
  \/ \E cb \in inflight : FetchOk(cb)
  \/ \E cb \in inflight : \E ok \in RemovalReads(cb.rem.id) : FetchFail(cb, ok)
  \/ \E cb \in inflight : \E ok \in RemovalReads(cb.rem.id) : SendDone(cb, ok)
  \/ \E cut \in BOOLEAN : Restart(cut)
  \/ \E k, j \in 1..Cardinality(Reminders), oks \in ReadsOfPass :
       RestoreDies(k, j, oks)

Spec == Init /\ [][Next]_vars

\* ---- timers that expire on time ---------------------------------------------
\* The same process when every timer expires at its due time, with reminders
\* registered at clock 0 after recovery on an empty reminders.json, and with
\* delays up to MaxChain.

\* The process after restoreReminders has run on an empty reminders.json.
InitRecovered ==
  /\ now = 0
  /\ phase = "running"
  /\ crashes = 0
  /\ store = <<>>
  /\ timers = {}
  /\ inflight = {}
  /\ activeTimers = [i \in Ids |-> NoHandle]
  /\ restoreLog = NoLog
  /\ hist = [n \in Reminders |-> NoHist]

\* The clock advances once every timer that is due has expired.
TickOnTime ==
  /\ now < MaxChain
  /\ \A tm \in timers : tm.due > now
  /\ now' = now + 1
  /\ UNCHANGED <<phase, crashes, store, timers, inflight, activeTimers,
                 restoreLog, hist>>

\* /remind at clock 0, so that the delay of the reminder is its remindAt.
RemindAtStart(guildId, at, n, id, ok1, ok2) ==
  /\ now = 0
  /\ Remind(guildId, at, n, id, 0, ok1, ok2)

\* An intermediate timer expires when it is due.
TimerHopOnTime(tm, ok) == tm.due = now /\ TimerHop(tm, ok)

\* A terminal timer expires when it is due.
TimerFireOnTime(tm) == tm.due = now /\ TimerFire(tm)

NextOnTime ==
  \/ TickOnTime
  \/ \E n \in {x \in Reminders : NextReminder(x)} :
       \E g \in Guilds, at \in 1..MaxChain, id \in Ids,
          ok1, ok2 \in ReadOutcomes :
         RemindAtStart(g, at, n, id, ok1, ok2)
  \/ \E tm \in timers : \E ok \in RemovalReads(tm.rem.id) : TimerHopOnTime(tm, ok)
  \/ \E tm \in timers : TimerFireOnTime(tm)
  \/ \E cb \in inflight : FetchOk(cb)
  \/ \E cb \in inflight : \E ok \in RemovalReads(cb.rem.id) : FetchFail(cb, ok)
  \/ \E cb \in inflight : \E ok \in RemovalReads(cb.rem.id) : SendDone(cb, ok)

SpecOnTime == InitRecovered /\ [][NextOnTime]_vars

\* ---- the /remind handler in full -------------------------------------------
\* The /remind handler with its two options and the record as it is written,
\* deadline included.  Remind above is this with the deadline left out.  What
\* the handler writes does not depend on timers having expired, and a timer
\* may expire as late as one likes: SpecCmd follows the /remind requests and
\* the clock of a process after recovery, and its restart when the handler
\* has ended the process, while no timer has expired yet.

\* new Date(x) of a time value x outside the range of Date is an Invalid
\* Date, whose time value is NaN.
TimeClip(x) == IF x < -MaxDate \/ x > MaxDate THEN NaN ELSE x

\* bot.js line 281.
remindAtOf(deadline, remindBefore) ==
  TimeClip(deadline - remindBefore * OneMinute)

\* bot.js /remind handler (lines 268-315).  A remindAt that is not after the
\* clock is refused at line 282.  An invalid remindAt passes that test, as no
\* comparison with NaN is true, and remindAt.toISOString() throws at line 297,
\* before scheduler.addReminder is called: the exception rejects the listener
\* and ends the process, with nothing written.  ok1 and ok2 are the outcomes
\* of the reads of addReminder.
RemindCmd(guildId, deadline, remindBefore, n, id, adv, ok1, ok2) ==
  LET remindAt == remindAtOf(deadline, remindBefore)
      r == [id |-> id, guildId |-> guildId, remindAt |-> remindAt, n |-> n,
            deadline |-> deadline]
  IN  /\ ~JsLe(remindAt, now)
      /\ NextReminder(n)
      /\ AnyId(n, id)
      /\ IF remindAt = NaN
         THEN \* nothing is read and the clock is not read again
              /\ adv = 0 /\ ok1 /\ ok2
              /\ ProcessDies(store)
              /\ UNCHANGED <<now, hist>>
         ELSE /\ now + adv <= MaxTime
              /\ SetMem(addReminder(Mem, r, now + adv, ok1, ok2))
              /\ hist' = [hist EXCEPT ![n].id = id,
                                      ![n].reg = IF remindAt > now + adv
                                                 THEN "armed" ELSE "due"]
              /\ now' = now + adv
              /\ UNCHANGED <<phase, crashes, restoreLog>>

NextCmd ==
  \/ Tick
  \/ \E k \in 1..(Cardinality(Reminders) + 1), oks \in ReadsOfPass :
       Restore(k, oks)
  \/ \E n \in {x \in Reminders : NextReminder(x)} :
       \E g \in Guilds, deadline \in Times, remindBefore \in RemindBefores,
          id \in Ids, adv \in 0..1, ok1, ok2 \in ReadOutcomes :
         RemindCmd(g, deadline, remindBefore, n, id, adv, ok1, ok2)

SpecCmd == InitRecovered /\ [][NextCmd]_vars

\* ---- recovery on a reminders.json that was not written by the bot ------------
\* A process starts on a file holding up to two records with distinct ids, any
\* of which may lack a remindAt that parses (the bot itself never writes such
\* a record: toISOString at bot.js line 297 throws on an invalid date).  The
\* history starts with the process.

StoredRecords ==
  {r \in [id : Ids, guildId : Guilds, remindAt : Times \cup {NaN},
          n : Reminders] : r.n = r.id}

InitCorrupt ==
  /\ now \in Times
  /\ phase = "registering"
  /\ crashes = 0
  /\ store \in {<<>>} \cup {<<r>> : r \in StoredRecords}
               \cup {<<r, q>> : r \in {x \in StoredRecords : x.id = 1},
                                q \in {x \in StoredRecords : x.id = 2}}
  /\ timers = {}
  /\ inflight = {}
  /\ activeTimers = [i \in Ids |-> NoHandle]
  /\ restoreLog = NoLog
  /\ hist = [n \in Reminders |-> NoHist]

NextCorrupt ==
  \/ Tick
  \/ \E k \in 1..(Cardinality(Reminders) + 1), oks \in ReadsOfPass :
       Restore(k, oks)
  \/ \E tm \in timers : \E ok \in RemovalReads(tm.rem.id) : TimerHop(tm, ok)
  \/ \E tm \in timers : TimerFire(tm)
  \/ \E cb \in inflight : FetchOk(cb)
  \/ \E cb \in inflight : \E ok \in RemovalReads(cb.rem.id) : FetchFail(cb, ok)
  \/ \E cb \in inflight : \E ok \in RemovalReads(cb.rem.id) : SendDone(cb, ok)

SpecCorrupt == InitCorrupt /\ [][NextCorrupt]_vars

\* ---- the claims ----------------------------------------------------------------

HasRecord(st, guildId, id) ==
  \E i \in 1..Len(st) : st[i].id = id /\ st[i].guildId = guildId

\* Reminder n has a record in the store.
Stored(n) == \E i \in 1..Len(store) : store[i].n = n

InFlight(n) == {cb \in inflight : cb.rem.n = n}

Pending(n) == {tm \in timers : tm.rem.n = n}

\* The pending timers whose reminder has this id.
TimersOf(id) == {tm \in timers : tm.rem.id = id}

\* The step is a run of restoreReminders.
RestoreStep == phase = "registering" /\ phase' = "running"

\* C1: within one process run (here the first), at most one channel.send is
\* ever started for a reminder.
C1_AtMostOneSendPerRun ==
  \A n \in Reminders : crashes = 0 => hist[n].sends <= 1

\* C2: no delivery attempt for a reminder (its terminal callback) starts
\* before the reminder's remindAt: a callback that is running belongs to a
\* reminder whose remindAt is not later than the clock.
C2_NoSendBeforeFireAt ==
  \A cb \in inflight : cb.rem.remindAt <= now

\* C3: once the record of a reminder that was registered with remindAt in the
\* future, never cancelled, in a process that did not crash, is gone from the
\* store and no timer or callback of it is left, exactly one delivery attempt
\* (terminal callback) was made for it.
C3_ExactlyOneAttemptWhenDone ==
  \A n \in Reminders :
    ( /\ hist[n].reg = "armed"
      /\ hist[n].cancels = 0
      /\ crashes = 0
      /\ ~Stored(n)
      /\ Pending(n) = {} /\ InFlight(n) = {} )
    => hist[n].fired = 1

\* C4: across process restarts a reminder is delivered (channel.send started)
\* at most once in total.
C4_AtMostOneSendAcrossRestarts ==
  \A n \in Reminders : crashes >= 1 => hist[n].sends <= 1

\* C5: when restoreReminders completes, every record with remindAt <= now
\* (the clock when the pass started) is deleted and no delivery was started,
\* and every record with remindAt > now is still in the store with a pending
\* timer of it that expires at its remindAt at the latest.
C5_RestoreDeletesDueArmsRest ==
  [][RestoreStep =>
       \A i \in 1..Len(store) :
         LET r == store[i]
         IN  IF r.remindAt <= now
             THEN r.id \notin StoreIds(store') /\ hist'[r.n].sends = hist[r.n].sends
             ELSE /\ r.id \in StoreIds(store')
                  /\ \E tm \in timers' :
                       /\ tm.rem = r
                       /\ tm.due <= r.remindAt
                       /\ tm.kind = "fire" => tm.due = r.remindAt]_vars

\* C6: addReminder and cancelReminder requests are processed only after
\* restoreReminders has completed in the process run.
C6_NoRequestBeforeRestore ==
  [][(\E n \in Reminders : \/ hist'[n].reg # hist[n].reg
                           \/ hist'[n].cancels # hist[n].cancels)
       => phase = "running"]_vars

\* C7: a reminder for which cancelReminder returned true before any terminal
\* callback of it started is absent from the store and from getReminders, and
\* no channel.send is ever started for it.
C7_CancelledNeverDelivered ==
  \A n \in Reminders :
    hist[n].cancelledUnfired =>
      /\ ~Stored(n)
      /\ \A g \in Guilds :
           \A ok \in ReadOutcomes :
             LET res == getReminders(store, g, now, ok)
             IN  \A i \in 1..Len(res) : res[i].n # n
      /\ hist[n].sends = 0

\* C8: cancelReminder(guildId, id) returns false and changes neither the
\* store nor activeTimers nor any timer when no stored reminder has that id
\* within that guild, whatever the outcomes of its reads.
C8_CancelUnknownIsNoop ==
  \A g \in Guilds, id \in Ids, ok1, ok2 \in ReadOutcomes :
    ~HasRecord(store, g, id) =>
      cancelReminder(Mem, g, id, ok1, ok2) = [m |-> Mem, val |-> FALSE]

\* C8 witness: a reminder is stored and armed under one guild, and
\* cancelReminder with its id and the other guild returns false.
C8_Witness ==
  \E g \in Guilds, id \in Ids :
    /\ id \in StoreIds(store)
    /\ ~HasRecord(store, g, id)
    /\ activeTimers[id] # NoHandle
    /\ TimersOf(id) # {}
    /\ ~cancelReminder(Mem, g, id, TRUE, TRUE).val

\* C9: when cancelReminder returned true while a terminal callback of the
\* reminder was in flight, no second delivery (channel.send) occurs.
C9_NoSecondDeliveryAfterRacingCancel ==
  \A n \in Reminders :
    (hist[n].cancels >= 1 /\ ~hist[n].cancelledUnfired) => hist[n].sends <= 1

\* C10: of the cancelReminder calls for one live reminder exactly one returns
\* true: a call with the guild and id of a stored record returns true, a call
\* with any other guild and id returns false, at most one call ever returns
\* true for a reminder, and once one has, the reminder has no record left for
\* a later call to find.
C10_ExactlyOneCancelReturnsTrue ==
  /\ \A n \in Reminders :
       /\ hist[n].cancels <= 1
       /\ hist[n].cancels = 1 => ~Stored(n)
  /\ \A g \in Guilds, id \in Ids, ok1, ok2 \in ReadOutcomes :
       cancelReminder(Mem, g, id, ok1, ok2).val = HasRecord(store, g, id)

\* C11: a registration whose remindAt is not later than the clock when
\* addReminder arms it is refused: no id is issued for it.
C11_DueRegistrationRefused ==
  \A n \in Reminders : hist[n].reg # "due"

\* C12: every reminder returned by getReminders(guildId) is a stored record
\* of that guild whose remindAt is later than the clock, whatever the outcome
\* of its read.
C12_GetRemindersFilters ==
  \A g \in Guilds, ok \in ReadOutcomes :
    LET res == getReminders(store, g, now, ok)
    IN  \A i \in 1..Len(res) :
          /\ res[i].guildId = g
          /\ res[i].remindAt > now
          /\ \E j \in 1..Len(store) : store[j] = res[i]

\* C12 witness: the store holds a record of another guild and a record whose
\* remindAt has passed, and getReminders returns neither of them.
C12_Witness ==
  \E g \in Guilds :
    /\ Len(store) = 2
    /\ store[1].guildId # g /\ store[1].remindAt > now
    /\ store[2].guildId = g /\ store[2].remindAt <= now
    /\ getReminders(store, g, now, TRUE) = <<>>
    /\ Len(getReminders(store, store[1].guildId, now, TRUE)) = 1

\* C13: the sequence returned by getReminders(guildId) is in ascending order
\* of remindAt, reminders of equal remindAt in ascending order of id.
C13_ListingSorted ==
  \A g \in Guilds, ok \in ReadOutcomes :
    LET res == getReminders(store, g, now, ok)
    IN  \A i, j \in 1..Len(res) :
          i < j => \/ res[i].remindAt < res[j].remindAt
                   \/ res[i].remindAt = res[j].remindAt /\ res[i].id < res[j].id

CeilDiv(a, b) == (a + b - 1) \div b

\* C14: with timers expiring on time, a reminder armed at clock 0 with delay
\* D = remindAt is delivered by the ceil(D / MAX_DELAY)-th timer of its chain:
\* every intermediate timer lasts MAX_DELAY, the terminal timer is due at
\* remindAt and lasts the remainder, which is at least 1 and at most MAX_DELAY.
C14_HopCount ==
  \A n \in Reminders :
    /\ \A tm \in Pending(n) :
         LET left == tm.rem.remindAt - hist[n].hops * MAX_DELAY
         IN  IF tm.kind = "hop"
             THEN tm.due = (hist[n].hops + 1) * MAX_DELAY /\ left > MAX_DELAY
             ELSE tm.due = tm.rem.remindAt /\ left \in 1..MAX_DELAY
    /\ \A cb \in InFlight(n) :
         /\ hist[n].hops + hist[n].fired = CeilDiv(cb.rem.remindAt, MAX_DELAY)
         /\ hist[n].fired = 1
    /\ (hist[n].reg # "no" /\ hist[n].fired = 0) => Pending(n) # {}

\* C14 witness: a reminder with delay MaxChain is being sent after two
\* intermediate timers and a terminal one, and a reminder with delay
\* MAX_DELAY after a single terminal timer.
C14_Witness ==
  /\ hist[1].hops = 2 /\ hist[1].fired = 1
  /\ hist[2].hops = 0 /\ hist[2].fired = 1
  /\ \E cb \in inflight : cb.rem.n = 1 /\ cb.rem.remindAt = 2 * MAX_DELAY + 1 /\ cb.pc = "send"
  /\ \E cb \in inflight : cb.rem.n = 2 /\ cb.rem.remindAt = MAX_DELAY

\* The step ends a terminal callback (after channels.fetch failed, or after
\* channel.send resolved or threw).
CallbackEnds(cb) == cb \in inflight /\ inflight' = inflight \ {cb} /\ crashes' = crashes

\* C15: the step that ends a delivery attempt, failed or not, deletes the
\* reminder's record and its activeTimers entry, arms no timer, and leaves
\* every other reminder's record, every pending timer and every other
\* activeTimers entry as they were.
C15_FailedDeliveryCleansUp ==
  [][\A cb \in inflight :
       CallbackEnds(cb) =>
         /\ store' = SelectSeq(store, LAMBDA r : r.n # cb.rem.n)
         /\ activeTimers' = [activeTimers EXCEPT ![cb.rem.id] = NoHandle]
         /\ timers' = timers
         /\ hist' = hist]_vars

\* C16: a reminder's record is in the store if and only if the reminder was
\* registered, no terminal callback of it has ended, it was not cancelled and
\* recovery did not expire it (stated for the first process run, in which
\* recovery found no record).
C16_StoredIffLive ==
  \A n \in Reminders :
    (crashes = 0 /\ restoreLog = NoLog) =>
      ( Stored(n)
          <=> /\ hist[n].reg # "no"
              /\ hist[n].fired = Cardinality(InFlight(n))
              /\ hist[n].cancels = 0 )

\* C17: every reminder id has at most one pending timer, and that timer is
\* the one activeTimers holds for the id.
C17_OneTrackedTimerPerId ==
  \A id \in Ids :
    /\ Cardinality(TimersOf(id)) <= 1
    /\ \A tm \in TimersOf(id) : tm.h = activeTimers[id]

\* C18: the id addReminder gives a reminder is the id of no reminder created
\* before it, and the store never holds two records with the same id.
C18_IdsNeverRepeat ==
  /\ \A n, k \in Issued : n # k => hist[n].id # hist[k].id
  /\ \A i, j \in 1..Len(store) : i # j => store[i].id # store[j].id

\* C19: the record of a reminder never changes while it is in the store, and
\* its remindAt is the remindAt of the reminder object that every pending
\* timer and running callback of the reminder holds.
C19_FireAtNeverChanges ==
  /\ [](\A i \in 1..Len(store) :
          \A x \in timers \cup inflight :
            x.rem.n = store[i].n => x.rem.remindAt = store[i].remindAt)
  /\ [][\A i \in 1..Len(store) : \A j \in 1..Len(store') :
          store'[j].n = store[i].n => store'[j] = store[i]]_vars

\* C19 witness: a record with the latest remindAt has been through
\* addReminder, an intermediate hop, a restart and restoreReminders, while
\* another record was removed from the file.
C19_Witness ==
  /\ crashes = 1
  /\ phase = "running"
  /\ restoreLog.restored = 1 /\ restoreLog.expired = 1
  /\ hist[1].hops = 1
  /\ store = <<[id |-> 1, guildId |-> "guildA", remindAt |-> 2 * MAX_DELAY - 1, n |-> 1]>>
  /\ Pending(1) # {}

\* C20: every record in the store has remindAt <= deadline.
C20_FireAtNotAfterDeadline ==
  \A i \in 1..Len(store) : store[i].remindAt <= store[i].deadline

\* C21: a stored record whose remindAt does not parse is skipped by
\* restoreReminders: no timer is armed for it and no delivery of it starts.
C21_MalformedSkipped ==
  \A x \in timers \cup inflight : x.rem.remindAt # NaN

\* C22: when restoreReminders completes, restored + expired is the number of
\* records the store held at its start, expired is the number of records the
\* pass deleted, and restored is the number of reminders that then have a
\* stored record and a tracked pending timer.
C22_RestoreCounts ==
  [][RestoreStep =>
       /\ restoreLog'.restored + restoreLog'.expired = Len(store)
       /\ restoreLog'.expired = Len(store) - Len(store')
       /\ restoreLog'.restored =
            Cardinality({i \in 1..Len(store') :
                           \E tm \in timers' :
                             tm.rem = store'[i] /\ tm.h = activeTimers'[tm.rem.id]})]_vars

\* C23: the finalisation of the terminal callback is idempotent: run a second
\* time for the same id, or after cancelReminder returned true for the id, it
\* changes neither the store nor activeTimers (nor any timer), whatever the
\* outcomes of the reads.
C23_FinalizeIdempotent ==
  \A id \in Ids, ok1, ok2 \in ReadOutcomes :
    /\ finalize(finalize(Mem, id, ok1), id, ok2) = finalize(Mem, id, ok1)
    /\ \A g \in Guilds, ok \in ReadOutcomes :
         LET res == cancelReminder(Mem, g, id, ok1, ok2)
         IN  res.val => finalize(res.m, id, ok) = res.m

\* The step is the expiry of the intermediate timer tm.
HopExpires(tm) ==
  /\ tm \in timers /\ tm.kind = "hop" /\ tm \notin timers'
  /\ hist'[tm.rem.n].hops = hist[tm.rem.n].hops + 1

\* C24: when an intermediate timer expires at or after the reminder's
\* remindAt, the records of the reminder's id and its activeTimers entry are
\* removed by storage.removeReminder (which keeps no record of the id, and
\* no record at all when its read fails), no timer is armed and no delivery
\* starts; when it expires before remindAt, one new tracked timer is armed for the reminder (terminal and due
\* at remindAt if that is at most MAX_DELAY away, intermediate otherwise) and
\* the store is left as it is.
C24_LateHop ==
  [][\A tm \in timers :
       HopExpires(tm) =>
         LET id == tm.rem.id
         IN  /\ inflight' = inflight
             /\ hist'[tm.rem.n].fired = hist[tm.rem.n].fired
             /\ IF tm.rem.remindAt <= now
                THEN /\ \E ok \in ReadOutcomes :
                          store' = storage_removeReminder(store, id, ok)
                     /\ activeTimers' = [activeTimers EXCEPT ![id] = NoHandle]
                     /\ timers' = timers \ {tm}
                ELSE /\ store' = store
                     /\ \E new \in timers' \ timers :
                          /\ timers' = (timers \ {tm}) \cup {new}
                          /\ new.rem = tm.rem
                          /\ activeTimers' = [activeTimers EXCEPT ![id] = new.h]
                          /\ new.due = IF tm.rem.remindAt - now > MAX_DELAY
                                       THEN now + MAX_DELAY ELSE tm.rem.remindAt
                          /\ new.kind = IF tm.rem.remindAt - now > MAX_DELAY
                                        THEN "hop" ELSE "fire"]_vars

\* C24 witness: in the first process run the intermediate timer of a stored
\* reminder, the one activeTimers tracks, is still pending when the clock
\* has reached the reminder's remindAt: its expiry is late.
C24_Witness ==
  \E tm \in timers :
    /\ tm.kind = "hop"
    /\ tm.rem.remindAt <= now
    /\ tm.h = activeTimers[tm.rem.id]
    /\ \E i \in 1..Len(store) : store[i] = tm.rem
    /\ crashes = 0
    /\ hist[tm.rem.n].reg = "armed" /\ hist[tm.rem.n].hops = 0

\* C25: a timer that addReminder arms is a timer of the record it has
\* written to the store, and when the write of the record throws, addReminder
\* arms no timer and sets no activeTimers entry, whether or not the failed
\* write has cut the file, and whatever the outcomes of the reads.
C25_PersistBeforeArm ==
  \A g \in Guilds, at \in Times, n \in Reminders, id \in Ids,
     ok1, ok2 \in ReadOutcomes :
    (at > now /\ NextReminder(n) /\ AnyId(n, id)) =>
      LET r == [id |-> id, guildId |-> g, remindAt |-> at, n |-> n]
          done == addReminder(Mem, r, now, ok1, ok2)
      IN  /\ \A tm \in done.timers \ timers :
               /\ tm.rem = r
               /\ \E i \in 1..Len(done.store) : done.store[i] = r
          /\ done.timers # timers
          /\ \A cut \in BOOLEAN :
               LET thrown == addReminderThrows(Mem, r, now, cut)
               IN  /\ thrown.timers = timers
                   /\ thrown.active = activeTimers
                   /\ thrown.inflight = inflight

\* C25 witness: reminder 1 was armed by addReminder and its record is
\* stored; a /remind for a second reminder whose write fails would leave the
\* timers and activeTimers as they are.
C25_Witness ==
  /\ hist[1].reg = "armed" /\ hist[2].reg = "no"
  /\ phase = "running"
  /\ \E i \in 1..Len(store), tm \in timers :
       store[i].n = 1 /\ tm.rem = store[i] /\ tm.h = activeTimers[1]
  /\ now < MaxTime
  /\ addReminderThrows(Mem, [id |-> 2, guildId |-> "guildB", remindAt |-> MaxTime,
                             n |-> 2], now, TRUE).timers = timers

\* C26: once restoreReminders has completed in the process, the ids that
\* have an activeTimers entry are the ids of the records in the store.
C26_TimerKeysAreStoreIds ==
  phase = "running" =>
    {id \in Ids : activeTimers[id] # NoHandle} = StoreIds(store)

\* The step is an operation on the reminder id that removes records: a
\* terminal callback of the id ends, cancelReminder returns true for it, an
\* intermediate timer of it expires, addReminder finds the reminder it has
\* just written already due, or restoreReminders (run to its end or until
\* the process dies) finds a record of it due.
RemovalOf(id) ==
  \/ crashes' = crashes /\ \E cb \in inflight : cb.rem.id = id /\ cb \notin inflight'
  \/ \E n \in Reminders :
       /\ hist[n].id = id
       /\ \/ hist'[n].cancels # hist[n].cancels
          \/ hist'[n].hops # hist[n].hops
  \/ \E n \in Reminders :
       hist[n].reg = "no" /\ hist'[n].reg = "due" /\ hist'[n].id = id
  \/ /\ RestoreStep \/ (phase = "registering" /\ crashes' # crashes)
     /\ \E i \in 1..Len(store) : store[i].id = id /\ store[i].remindAt <= now'

\* C27: storage.removeReminder(id) removes the records with that id and
\* keeps every other record, unchanged and in the same order;
\* storage.addReminder(r) appends r and keeps every earlier record; and in
\* every step of the process the store loses only records of the id the step
\* operates on and gains at most one record, at the end.
C27_StorageFrame ==
  /\ [](\A id \in Ids, ok \in ReadOutcomes :
          LET res == storage_removeReminder(store, id, ok)
              K == {i \in 1..Len(store) : store[i].id # id}
          IN  /\ Len(res) = Cardinality(K)
              /\ \A i \in K : res[Cardinality({j \in K : j <= i})] = store[i])
  /\ [](\A r \in [id : Ids, guildId : Guilds, remindAt : Times, n : Reminders],
           ok \in ReadOutcomes :
          LET res == storage_addReminder(store, r, ok)
          IN  /\ Len(res) = Len(store) + 1
              /\ res[Len(res)] = r
              /\ \A i \in 1..Len(store) : res[i] = store[i])
  /\ [][LET kept == SelectSeq(store, LAMBDA r : r.id \in StoreIds(store'))
        IN  /\ \/ store' = kept
               \/ /\ Len(store') = Len(kept) + 1
                  /\ SubSeq(store', 1, Len(kept)) = kept
                  /\ ~Stored(store'[Len(store')].n)
            /\ \A i \in 1..Len(store) :
                 store[i].id \notin StoreIds(store') => RemovalOf(store[i].id)]_vars

====
